---- MODULE Spec2Model ----
(***************************************************************************)
(* Verlet cloth: the model built by makeModel (points, joins, tick,        *)
(* removePoint, removeJoin), the segment intersection test and the pointer *)
(* handler that tears the cloth.                                           *)
(*                                                                         *)
(* Numbers.  The program computes with IEEE doubles.  Here a coordinate is *)
(* an integer count of 1/Scale units (fixed point); sqrt and the division  *)
(* of the relaxation step round down to a whole unit.  The one non-finite  *)
(* value that is ever stored, NaN (0/0 and 0 * Infinity), is the reserved  *)
(* integer NaN and every arithmetic operator propagates it as IEEE does.   *)
(* The quotients of lineIntersectsLine are never rounded: they are kept as *)
(* numerator and denominator and compared exactly, a zero denominator      *)
(* giving +Infinity, -Infinity or NaN as in IEEE division.                 *)
(*                                                                         *)
(* Time is counted in units of 1/30 s, Math.random() in halves.            *)
(***************************************************************************)
EXTENDS Integers, Sequences, FiniteSets, TLC

VARIABLES
    width,        \* makeModel's argument width
    height,       \* makeModel's argument height
    thrown,       \* the exception makeModel ended with ("none": it returned)
    points,       \* closure variable points: sequence of point identities
    joins,        \* closure variable joins: sequence of [from, to, length]
    pos,          \* the fields x, y, px, py, isFixed of every point object
    isDragging,   \* makePointerHandler's isDragging
    prevPoint,    \* makePointerHandler's prevPoint
    lastEvent,    \* the call or event handled last, with its arguments
    steps         \* number of calls and events handled since construction

vars == <<width, height, thrown, points, joins, pos, isDragging, prevPoint,
          lastEvent, steps>>

----------------------------------------------------------------------------
(* Bounds of the model *)

MaxDim == 8
MaxSimDim == 3
MaxSteps == 3

----------------------------------------------------------------------------
(* Number representation *)

Scale == 900 * 20
NaN == 0 - (2 * Scale * Scale)
WideBase == 2 * 2 * 2 * 2 * 2 * 2 * 2 * 2 * 2 * 2 * 2 * 2 * 2 * 2 * 2

Min(a, b) == IF a <= b THEN a ELSE b
Max(a, b) == IF a >= b THEN a ELSE b

\* Math.min / Math.max: NaN if either argument is NaN
MathMin(a, b) == IF a = NaN \/ b = NaN THEN NaN ELSE Min(a, b)
MathMax(a, b) == IF a = NaN \/ b = NaN THEN NaN ELSE Max(a, b)

FAdd(a, b) == IF a = NaN \/ b = NaN THEN NaN ELSE a + b
FSub(a, b) == IF a = NaN \/ b = NaN THEN NaN ELSE a - b
FMul(a, b) == IF a = NaN \/ b = NaN THEN NaN ELSE a * b

\* a / b on doubles, for the divisions whose result is stored: 0/0 is NaN;
\* a finite quotient is rounded down to a whole unit.
FDiv(a, b) ==
    IF a = NaN \/ b = NaN THEN NaN
    ELSE IF b = 0 THEN NaN
    ELSE IF b < 0 THEN (0 - a) \div (0 - b)
    ELSE a \div b

RECURSIVE SqrtSearch(_, _, _)
SqrtSearch(n, lo, hi) ==
    IF lo >= hi THEN lo
    ELSE LET mid == (lo + hi + 1) \div 2
         IN  IF mid * mid <= n THEN SqrtSearch(n, mid, hi)
             ELSE SqrtSearch(n, lo, mid - 1)

\* Math.sqrt, rounded down to a whole unit
MathSqrt(n) == IF n = NaN THEN NaN ELSE SqrtSearch(n, 0, 46340)

difference(p0, p1) == [x |-> FSub(p0.x, p1.x), y |-> FSub(p0.y, p1.y)]

length(point) == MathSqrt(FAdd(FMul(point.x, point.x), FMul(point.y, point.y)))

----------------------------------------------------------------------------
(* makeModel: construction of the grid *)

Range(s) == {s[i] : i \in DOMAIN s}

\* the point objects are named by their index in the points array as built
pointByPosition(r, c, w) == r * w + c

RowOf(p, w) == p \div w
ColOf(p, w) == p % w

\* lines 55-66: the fields of the point pushed for row r, column c
InitialPoint(r, c, w, h) ==
    LET y == FDiv(r * Scale, h - 1)
        x == FDiv(c * Scale, w - 1)
    IN  [x |-> x, y |-> y, px |-> x, py |-> y, isFixed |-> (r = 0)]

InitialPos(w, h) ==
    [p \in 0 .. (w * h - 1) |-> InitialPoint(RowOf(p, w), ColOf(p, w), w, h)]

InitialPoints(w, h) == [i \in 1 .. (w * h) |-> i - 1]

makeJoin(from, to, ps) ==
    [from |-> from, to |-> to, length |-> length(difference(ps[from], ps[to]))]

\* CellJoins with the parity test of the diagonal inverted
CellJoinsParityFlipped(r, c, w, h, ps) ==
    LET from == pointByPosition(r, c, w)
        horizontal == makeJoin(from, pointByPosition(r, c + 1, w), ps)
    IN  IF r < h - 1
        THEN IF (r + c) % 2 = 0
             THEN <<horizontal,
                    makeJoin(from, pointByPosition(r + 1, c + 1, w), ps)>>
             ELSE <<horizontal,
                    makeJoin(pointByPosition(r, c + 1, w),
                             pointByPosition(r + 1, c, w), ps)>>
        ELSE <<horizontal>>

\* lines 73-85: the joins pushed by one pass of the inner loop body
CellJoins(r, c, w, h, ps) ==
    LET from == pointByPosition(r, c, w)
        horizontal == makeJoin(from, pointByPosition(r, c + 1, w), ps)
    IN  IF r < h - 1
        THEN IF (r + c) % 2 = 1
             THEN <<horizontal,
                    makeJoin(from, pointByPosition(r + 1, c + 1, w), ps)>>
             ELSE <<horizontal,
                    makeJoin(pointByPosition(r, c + 1, w),
                             pointByPosition(r + 1, c, w), ps)>>
        ELSE <<horizontal>>

\* lines 72-86: for r, for c < width - 1, in loop order
RECURSIVE RowLoop(_, _, _, _)
RowLoop(k, w, h, ps) ==
    IF w < 2 \/ k >= h * (w - 1) THEN <<>>
    ELSE CellJoins(k \div (w - 1), k % (w - 1), w, h, ps)
         \o RowLoop(k + 1, w, h, ps)

\* lines 88-92: for c, for r < height - 1, in loop order
RECURSIVE ColumnLoop(_, _, _, _)
ColumnLoop(k, w, h, ps) ==
    IF h < 2 \/ k >= w * (h - 1) THEN <<>>
    ELSE LET c == k \div (h - 1)
             r == k % (h - 1)
         IN  <<makeJoin(pointByPosition(r, c, w), pointByPosition(r + 1, c, w), ps)>>
             \o ColumnLoop(k + 1, w, h, ps)

\* InitialJoins with the two loop nests in the other order
InitialJoinsColumnsFirst(w, h) ==
    LET ps == InitialPos(w, h)
    IN  ColumnLoop(0, w, h, ps) \o RowLoop(0, w, h, ps)

InitialJoins(w, h) ==
    LET ps == InitialPos(w, h)
    IN  RowLoop(0, w, h, ps) \o ColumnLoop(0, w, h, ps)

NoEvent == [kind |-> "none", a |-> 0, b |-> 0, c |-> 0, d |-> 0]
Event(k, a, b, c, d) == [kind |-> k, a |-> a, b |-> b, c |-> c, d |-> d]
Undefined == [def |-> FALSE, x |-> 0, y |-> 0]

\* const model = makeModel(width, height): the source has no throw statement
MakeModel ==
    /\ lastEvent.kind = "none"
    /\ points' = InitialPoints(width, height)
    /\ pos' = InitialPos(width, height)
    /\ joins' = InitialJoins(width, height)
    /\ thrown' = "none"
    /\ lastEvent' = Event("makeModel", width, height, 0, 0)
    /\ UNCHANGED <<width, height, isDragging, prevPoint, steps>>

InitMake ==
    /\ width \in 1 .. MaxDim
    /\ height \in 1 .. MaxDim
    /\ thrown = "none"
    /\ points = <<>>
    /\ joins = <<>>
    /\ pos = <<>>
    /\ isDragging = FALSE
    /\ prevPoint = Undefined
    /\ lastEvent = NoEvent
    /\ steps = 0

NextMake == MakeModel

SpecMake == InitMake /\ [][NextMake]_vars

----------------------------------------------------------------------------
(* tick *)

ITERATIONS == 2

\* the bound of Math.min(deltaTime, 1 / 30), in units of 1/30 s
MaxDeltaTime == 1

\* the values frame() and the callers pass as deltaTime, in units of 1/30 s:
\* 0, 1/30 and 10 seconds
DeltaTimes == {0, 1, 300}

\* the values of Math.random(), in halves: 0 and 0.5
RandomSamples == {0, 1}

\* ClampDeltaTime with the bound 1/15 in place of 1/30
ClampDeltaTimeLoose(deltaTime) == Min(deltaTime, 2 * MaxDeltaTime)

ClampDeltaTime(deltaTime) == Min(deltaTime, MaxDeltaTime)

\* force = { x: Math.random() * 0.1, y: 0.8 }, in units of 1/Scale
Force(random) == [x |-> (random * Scale) \div 20, y |-> (8 * Scale) \div 10]

\* acceleration * (deltaTime * deltaTime); deltaTime squared is in 1/900 s^2
AccelerationStep(a, deltaTime) == (a * (deltaTime * deltaTime)) \div 900

\* Integrate without the `if (particle.isFixed) continue`
IntegrateIgnoringFixed(particle, force, deltaTime) ==
    [particle EXCEPT
        !.x = FAdd(FSub(FMul(2, particle.x), particle.px),
                   AccelerationStep(force.x, deltaTime)),
        !.y = FAdd(FSub(FMul(2, particle.y), particle.py),
                   AccelerationStep(force.y, deltaTime)),
        !.px = particle.x,
        !.py = particle.y]

\* lines 98-112: one particle of the integration loop
Integrate(particle, force, deltaTime) ==
    IF particle.isFixed THEN particle
    ELSE [particle EXCEPT
            !.x = FAdd(FSub(FMul(2, particle.x), particle.px),
                       AccelerationStep(force.x, deltaTime)),
            !.y = FAdd(FSub(FMul(2, particle.y), particle.py),
                       AccelerationStep(force.y, deltaTime)),
            !.px = particle.x,
            !.py = particle.y]

IntegrateAll(ps, pts, force, deltaTime) ==
    [p \in DOMAIN ps |->
        IF p \in Range(pts) THEN Integrate(ps[p], force, deltaTime) ELSE ps[p]]

\* diff.x * factor with factor = (join.length - diffLen) / diffLen / 2.
\* diffLen = 0 makes factor infinite (or NaN) and diff zero: the product is NaN.
Offset(d, len, diffLen) ==
    IF d = NaN \/ len = NaN \/ diffLen = NaN THEN NaN
    ELSE IF diffLen = 0 THEN NaN
    ELSE FDiv(d * (len - diffLen), 2 * diffLen)

\* lines 116-129: one join of the relaxation loop
RelaxJoin(ps, join) ==
    LET diff == difference(ps[join.from], ps[join.to])
        diffLen == length(diff)
        offset == [x |-> Offset(diff.x, join.length, diffLen),
                   y |-> Offset(diff.y, join.length, diffLen)]
        from == IF ps[join.from].isFixed THEN ps[join.from]
                ELSE [ps[join.from] EXCEPT !.x = FAdd(@, offset.x),
                                           !.y = FAdd(@, offset.y)]
        to == IF ps[join.to].isFixed THEN ps[join.to]
              ELSE [ps[join.to] EXCEPT !.x = FSub(@, offset.x),
                                       !.y = FSub(@, offset.y)]
    IN  [ps EXCEPT ![join.from] = from, ![join.to] = to]

RECURSIVE RelaxPass(_, _, _)
RelaxPass(ps, js, k) ==
    IF k > Len(js) THEN ps
    ELSE LET relaxed == RelaxJoin(ps, js[k])
         IN  IF DOMAIN relaxed = DOMAIN ps  \* always: evaluates relaxed here
             THEN RelaxPass(relaxed, js, k + 1)
             ELSE relaxed

RECURSIVE Relax(_, _, _)
Relax(ps, js, i) ==
    IF i >= ITERATIONS THEN ps ELSE Relax(RelaxPass(ps, js, 1), js, i + 1)

\* the fields of all points after tick(deltaTime) with Math.random() = random
tick(ps, pts, js, deltaTime, random) ==
    Relax(IntegrateAll(ps, pts, Force(random), ClampDeltaTime(deltaTime)), js, 0)

Tick(deltaTime, random) ==
    /\ lastEvent.kind # "none"
    /\ steps < MaxSteps
    /\ pos' = tick(pos, points, joins, deltaTime, random)
    /\ steps' = steps + 1
    /\ lastEvent' = Event("tick", deltaTime, random, 0, 0)
    /\ UNCHANGED <<width, height, thrown, points, joins, isDragging, prevPoint>>

----------------------------------------------------------------------------
(* removePoint, removeJoin *)

\* removePoint that drops only the joins starting at the point
removePointFromOnly(pts, js, point) ==
    LET KeepPoint(each) == each # point
        KeepJoin(each) == each.from # point
    IN  [points |-> SelectSeq(pts, KeepPoint), joins |-> SelectSeq(js, KeepJoin)]

\* removePoint with || in place of && in the filter of the joins
removePointEitherEnd(pts, js, point) ==
    LET KeepPoint(each) == each # point
        KeepJoin(each) == each.from # point \/ each.to # point
    IN  [points |-> SelectSeq(pts, KeepPoint), joins |-> SelectSeq(js, KeepJoin)]

\* lines 134-137
removePoint(pts, js, point) ==
    LET KeepPoint(each) == each # point
        KeepJoin(each) == each.from # point /\ each.to # point
    IN  [points |-> SelectSeq(pts, KeepPoint), joins |-> SelectSeq(js, KeepJoin)]

Digit(n) == <<"0", "1", "2", "3", "4", "5", "6", "7", "8", "9">>[n + 1]

RECURSIVE NumberToString(_)
NumberToString(n) ==
    IF n < 10 THEN Digit(n) ELSE NumberToString(n \div 10) \o Digit(n % 10)

\* the left operand of `in` is converted to a property key: a point is a plain
\* object, whose string conversion is "[object Object]"
ToPropertyKey(point) == "[object Object]"

\* the string-keyed properties of an array: its indices and "length" (the
\* inherited ones are the method names of Array.prototype and Object.prototype)
ArrayKeys(arr) == {NumberToString(i - 1) : i \in DOMAIN arr} \cup {"length"}

In(point, arr) == ToPropertyKey(point) \in ArrayKeys(arr)

ReferenceCount(js, point) ==
    Cardinality({i \in DOMAIN js : js[i].from = point \/ js[i].to = point})

\* lines 139-154
removeJoin(pts, js, joinToRemove) ==
    LET KeepJoin(each) == each # joinToRemove
        joinsLeft == SelectSeq(js, KeepJoin)
        UsesJoin(point) == point = joinToRemove.from \/ point = joinToRemove.to
        pointsUsingJoin == SelectSeq(pts, UsesJoin)
        StillCounted(point) == ReferenceCount(joinsLeft, point) # 0
        pointsToDelete == SelectSeq(pointsUsingJoin, StillCounted)
        KeepPoint(point) == ~In(point, pointsToDelete)
    IN  [points |-> SelectSeq(pts, KeepPoint), joins |-> joinsLeft]

RemovePoint(point) ==
    /\ lastEvent.kind # "none"
    /\ steps < MaxSteps
    /\ LET m == removePoint(points, joins, point)
       IN  points' = m.points /\ joins' = m.joins
    /\ steps' = steps + 1
    /\ lastEvent' = Event("removePoint", point, 0, 0, 0)
    /\ UNCHANGED <<width, height, thrown, pos, isDragging, prevPoint>>

RemoveJoin(join) ==
    /\ lastEvent.kind # "none"
    /\ steps < MaxSteps
    /\ LET m == removeJoin(points, joins, join)
       IN  points' = m.points /\ joins' = m.joins
    /\ steps' = steps + 1
    /\ lastEvent' = Event("removeJoin", join.from, join.to, 0, 0)
    /\ UNCHANGED <<width, height, thrown, pos, isDragging, prevPoint>>

----------------------------------------------------------------------------
(* lineIntersectsLine *)

\* det on coordinates and their differences (lines 19-21)
det(a, b, c, d) == FSub(FMul(a, d), FMul(b, c))

\* Products beyond the range of the model checker's integers are kept as
\* hi * WideBase + lo with 0 <= lo < WideBase.
Wide(hi, lo) == [hi |-> hi + (lo \div WideBase), lo |-> lo % WideBase]

\* a * b for |b| < WideBase
WideMul(a, b) ==
    IF b < 0 THEN Wide(((0 - a) \div WideBase) * (0 - b), ((0 - a) % WideBase) * (0 - b))
    ELSE Wide((a \div WideBase) * b, (a % WideBase) * b)

WideSub(u, v) == Wide(u.hi - v.hi, u.lo - v.lo)

WideLeq(u, v) == u.hi < v.hi \/ (u.hi = v.hi /\ u.lo <= v.lo)

WideZero == Wide(0, 0)

\* det(det(..), x1 - x2, det(..), x3 - x4): a and c are determinants, b and d
\* coordinate differences (lines 19-21)
detWide(a, b, c, d) ==
    IF a = NaN \/ b = NaN \/ c = NaN \/ d = NaN
    THEN [nan |-> TRUE, v |-> WideZero]
    ELSE [nan |-> FALSE, v |-> WideSub(WideMul(a, d), WideMul(c, b))]

\* n / d of lines 26-31, unevaluated: n a detWide, d a det
Quotient(n, d) == [nan |-> n.nan \/ d = NaN, num |-> n.v, den |-> d]

QuotientIsNaN(q) == q.nan \/ (q.den = 0 /\ q.num = WideZero)

\* a <= q for a coordinate a.  With den = 0 and num # 0 the quotient is an
\* infinity; its sign is taken from num (the signed zero of den is not kept):
\* a <= +Infinity holds, a <= -Infinity does not.
Leq(a, q) ==
    IF a = NaN \/ QuotientIsNaN(q) THEN FALSE
    ELSE IF q.den = 0 THEN WideLeq(WideZero, q.num)
    ELSE IF q.den > 0 THEN WideLeq(WideMul(q.den, a), q.num)
    ELSE WideLeq(q.num, WideMul(q.den, a))

\* a >= q
Geq(a, q) ==
    IF a = NaN \/ QuotientIsNaN(q) THEN FALSE
    ELSE IF q.den = 0 THEN WideLeq(q.num, WideZero)
    ELSE IF q.den > 0 THEN WideLeq(q.num, WideMul(q.den, a))
    ELSE WideLeq(WideMul(q.den, a), q.num)

\* Within written with negated comparisons, !(min > q) && !(max < q), which
\* hold of NaN
WithinNegated(a, b, q) ==
    IF QuotientIsNaN(q) THEN TRUE
    ELSE Leq(MathMin(a, b), q) /\ Geq(MathMax(a, b), q)

\* Math.min(a, b) <= q && Math.max(a, b) >= q (lines 34-41, one pair)
Within(a, b, q) == Leq(MathMin(a, b), q) /\ Geq(MathMax(a, b), q)

Denominator(x1, y1, x2, y2, x3, y3, x4, y4) ==
    det(FSub(x1, x2), FSub(y1, y2), FSub(x3, x4), FSub(y3, y4))

lineIntersectsLine(x1, y1, x2, y2, x3, y3, x4, y4) ==
    LET den == Denominator(x1, y1, x2, y2, x3, y3, x4, y4)
        x == Quotient(detWide(det(x1, y1, x2, y2), FSub(x1, x2),
                              det(x3, y3, x4, y4), FSub(x3, x4)), den)
        y == Quotient(detWide(det(x1, y1, x2, y2), FSub(y1, y2),
                              det(x3, y3, x4, y4), FSub(y3, y4)), den)
    IN  /\ Within(x1, x2, x)
        /\ Within(x3, x4, x)
        /\ Within(y1, y2, y)
        /\ Within(y3, y4, y)

----------------------------------------------------------------------------
(* makePointerHandler *)

\* 0.01, the least movement of the pointer that cuts
MinDragDistance == Scale \div 100

\* the pointer positions in model space (txPoint), in units of 1/Scale
PointerSamples ==
    { <<0 - (Scale \div 4), 0>>,
      <<(3 * Scale) \div 4, 0>>,
      <<Scale \div 4, Scale \div 4>>,
      <<(Scale \div 4) + (Scale \div 200), Scale \div 4>>,
      <<(3 * Scale) \div 4, (3 * Scale) \div 4>> }

\* TooClose with the threshold 0 in place of 0.01
TooCloseZero(txPoint, prev) == length(difference(txPoint, prev)) <= 0

\* line 186: the pointer has not moved far enough from the previous sample
TooClose(txPoint, prev) == length(difference(txPoint, prev)) <= MinDragDistance

\* does the cut prev -> tx cross the join, at the points' current positions
Crosses(prev, tx, join, ps) ==
    lineIntersectsLine(prev.x, prev.y, tx.x, tx.y,
                       ps[join.from].x, ps[join.from].y,
                       ps[join.to].x, ps[join.to].y)

\* joinsToRemove.forEach((join) => model.removeJoin(join))
RECURSIVE RemoveEach(_, _, _)
RemoveEach(m, joinsToRemove, k) ==
    IF k > Len(joinsToRemove) THEN m
    ELSE RemoveEach(removeJoin(m.points, m.joins, joinsToRemove[k]),
                    joinsToRemove, k + 1)

PointerDown(pt) ==
    /\ lastEvent.kind # "none"
    /\ steps < MaxSteps
    /\ isDragging' = TRUE
    /\ prevPoint' = [def |-> TRUE, x |-> pt[1], y |-> pt[2]]
    /\ steps' = steps + 1
    /\ lastEvent' = Event("pointerdown", pt[1], pt[2], 0, 0)
    /\ UNCHANGED <<width, height, thrown, points, joins, pos>>

PointerMove(pt) ==
    /\ lastEvent.kind # "none"
    /\ steps < MaxSteps
    /\ LET txPoint == [x |-> pt[1], y |-> pt[2]]
       IN  IF ~isDragging
           THEN UNCHANGED <<points, joins, prevPoint>>
           ELSE IF TooClose(txPoint, prevPoint)
           THEN UNCHANGED <<points, joins, prevPoint>>
           ELSE LET Cut(join) == Crosses(prevPoint, txPoint, join, pos)
                    joinsToRemove == SelectSeq(joins, Cut)
                    m == RemoveEach([points |-> points, joins |-> joins],
                                    joinsToRemove, 1)
                IN  /\ points' = m.points
                    /\ joins' = m.joins
                    /\ prevPoint' = [def |-> TRUE, x |-> txPoint.x, y |-> txPoint.y]
    /\ steps' = steps + 1
    /\ lastEvent' = Event("pointermove", pt[1], pt[2], prevPoint.x, prevPoint.y)
    /\ UNCHANGED <<width, height, thrown, pos, isDragging>>

PointerUp ==
    /\ lastEvent.kind # "none"
    /\ steps < MaxSteps
    /\ isDragging' = FALSE
    /\ steps' = steps + 1
    /\ lastEvent' = Event("pointerup", 0, 0, 0, 0)
    /\ UNCHANGED <<width, height, thrown, points, joins, pos, prevPoint>>

----------------------------------------------------------------------------
(* The running program: a model and the pointer handler *)

Init ==
    /\ width \in 2 .. MaxSimDim
    /\ height \in 2 .. MaxSimDim
    /\ thrown = "none"
    /\ points = InitialPoints(width, height)
    /\ joins = InitialJoins(width, height)
    /\ pos = InitialPos(width, height)
    /\ isDragging = FALSE
    /\ prevPoint = Undefined
    /\ lastEvent = Event("makeModel", width, height, 0, 0)
    /\ steps = 0

Next ==
    \/ \E deltaTime \in DeltaTimes, random \in RandomSamples : Tick(deltaTime, random)
    \/ \E i \in DOMAIN points : RemovePoint(points[i])
    \/ \E i \in DOMAIN joins : RemoveJoin(joins[i])
    \/ \E pt \in PointerSamples : PointerDown(pt)
    \/ \E pt \in PointerSamples : PointerMove(pt)
    \/ PointerUp

Spec == Init /\ [][Next]_vars

----------------------------------------------------------------------------
(* Properties of the construction, checked under SpecMake *)

Built == lastEvent.kind = "makeModel"

IsHorizontal(j) ==
    RowOf(j.to, width) = RowOf(j.from, width) /\ j.to = j.from + 1

IsVertical(j) == j.to = j.from + width

IsDiagonal(j) ==
    /\ RowOf(j.to, width) = RowOf(j.from, width) + 1
    /\ ColOf(j.to, width) # ColOf(j.from, width)

JoinsOfKind(IsKind(_)) == {i \in DOMAIN joins : IsKind(joins[i])}

HasJoin(from, to) == \E i \in DOMAIN joins : joins[i].from = from /\ joins[i].to = to

\* C4: makeModel(columns, rows) with columns, rows >= 2 creates columns*rows
\* points, of which exactly the points of row 0 are fixed, and
\* rows*(columns-1) horizontal, columns*(rows-1) vertical and
\* (rows-1)*(columns-1) diagonal joins and no others (16 joins, 9 points, 3
\* fixed for 3x3); the diagonal of cell (r, c) joins (r,c)->(r+1,c+1) when r+c
\* is odd and (r,c+1)->(r+1,c) otherwise.
C4_GridCounts ==
    (Built /\ width >= 2 /\ height >= 2) =>
        /\ Len(points) = width * height
        /\ Cardinality(Range(points)) = width * height
        /\ {p \in Range(points) : pos[p].isFixed}
             = {pointByPosition(0, c, width) : c \in 0 .. (width - 1)}
        /\ \A p \in Range(points) : pos[p].isFixed <=> pos[p].y = 0
        /\ Cardinality(JoinsOfKind(IsHorizontal)) = height * (width - 1)
        /\ Cardinality(JoinsOfKind(IsVertical)) = width * (height - 1)
        /\ Cardinality(JoinsOfKind(IsDiagonal)) = (height - 1) * (width - 1)
        /\ Len(joins) = height * (width - 1) + width * (height - 1)
                        + (height - 1) * (width - 1)
        /\ \A r \in 0 .. (height - 2), c \in 0 .. (width - 2) :
              LET down == HasJoin(pointByPosition(r, c, width),
                                  pointByPosition(r + 1, c + 1, width))
                  up == HasJoin(pointByPosition(r, c + 1, width),
                                pointByPosition(r + 1, c, width))
              IN  IF (r + c) % 2 = 1 THEN down /\ ~up ELSE up /\ ~down
        /\ (width = 3 /\ height = 3) =>
              /\ Len(joins) = 16
              /\ Len(points) = 9
              /\ Cardinality({p \in Range(points) : pos[p].isFixed}) = 3

C4_Witness ==
    /\ Built
    /\ width = 3
    /\ height = 3
    /\ Len(joins) = 16
    /\ HasJoin(pointByPosition(0, 1, 3), pointByPosition(1, 2, 3))

\* C5 as claimed: right after construction every horizontal join precedes
\* every diagonal join and every diagonal join precedes every vertical join
\* in joins().
C5_KindsInBlocks ==
    (Built /\ width >= 2 /\ height >= 2) =>
        \A i, j \in DOMAIN joins :
            /\ (IsHorizontal(joins[i]) /\ IsDiagonal(joins[j])) => i < j
            /\ (IsDiagonal(joins[i]) /\ IsVertical(joins[j])) => i < j

\* the cell (its upper left point) a horizontal or diagonal join was pushed for
CellOf(j) ==
    IF IsDiagonal(j) /\ j.to # j.from + width + 1 THEN j.from - 1 ELSE j.from

\* C5 as amended: right after construction the horizontal joins are stored in
\* row-major order of their cell, each diagonal join directly after the
\* horizontal join of its own cell, and all of these before the vertical
\* joins, which are stored column by column.
C5_CellOrderThenColumns ==
    (Built /\ width >= 2 /\ height >= 2) =>
        /\ \A i, j \in DOMAIN joins :
              /\ ((IsHorizontal(joins[i]) \/ IsDiagonal(joins[i]))
                    /\ IsVertical(joins[j])) => i < j
              /\ (IsHorizontal(joins[i]) /\ IsHorizontal(joins[j]) /\ i < j)
                    => joins[i].from < joins[j].from
              /\ (IsVertical(joins[i]) /\ IsVertical(joins[j]) /\ i < j)
                    => \/ ColOf(joins[i].from, width) < ColOf(joins[j].from, width)
                       \/ /\ ColOf(joins[i].from, width) = ColOf(joins[j].from, width)
                          /\ joins[i].from < joins[j].from
        /\ \A i \in DOMAIN joins :
              IsDiagonal(joins[i]) =>
                  /\ i > 1
                  /\ IsHorizontal(joins[i - 1])
                  /\ CellOf(joins[i - 1]) = CellOf(joins[i])

C5_Witness ==
    /\ Built
    /\ width >= 3
    /\ height >= 3
    /\ \E i, j \in DOMAIN joins :
          i < j /\ IsDiagonal(joins[i]) /\ IsHorizontal(joins[j])

\* C6: makeModel with columns < 2 or rows < 2 fails with InvalidDimensions and
\* produces no topology.
C6_InvalidDimensions ==
    (lastEvent.kind # "none" /\ (width < 2 \/ height < 2)) =>
        /\ thrown = "InvalidDimensions"
        /\ points = <<>>
        /\ joins = <<>>

----------------------------------------------------------------------------
(* Properties of the running program, checked under Spec *)

TxPoint(e) == [x |-> e.a, y |-> e.b]

\* the last event was a pointermove that went through to the cut: prevPoint
\* was replaced by a sample different from the one it held
CutMade ==
    /\ lastEvent.kind = "pointermove"
    /\ isDragging
    /\ prevPoint = [def |-> TRUE, x |-> lastEvent.a, y |-> lastEvent.b]
    /\ <<lastEvent.a, lastEvent.b>> # <<lastEvent.c, lastEvent.d>>

IndexIn(s, e) == CHOOSE i \in DOMAIN s : s[i] = e

\* the elements of t keep the relative order they have in s
SameOrder(s, t) ==
    \A i, j \in DOMAIN t : i < j => IndexIn(s, t[i]) < IndexIn(s, t[j])

\* C1: after removeJoin, a point that the call left without any join is
\* absent from points().
C1_OrphansRemoved ==
    [][lastEvent'.kind = "removeJoin" =>
          \A i \in DOMAIN points :
              (ReferenceCount(joins, points[i]) > 0
                 /\ ReferenceCount(joins', points[i]) = 0)
              => points[i] \notin Range(points')]_vars

\* C2: every join in joins() has two distinct endpoints and both are members
\* of points().
C2_JoinsWellFormed ==
    \A i \in DOMAIN joins :
        /\ joins[i].from # joins[i].to
        /\ joins[i].from \in Range(points)
        /\ joins[i].to \in Range(points)

C2_Witness ==
    /\ lastEvent.kind = "removePoint"
    /\ steps = MaxSteps
    /\ Len(points) < width * height
    /\ Len(joins) > 0
    /\ pos # InitialPos(width, height)

\* C3: a point with isFixed = true keeps the position it was constructed
\* with, across ticks and tears.
C3_FixedPointsStay ==
    \A p \in DOMAIN pos :
        pos[p].isFixed =>
            /\ pos[p].x = InitialPos(width, height)[p].x
            /\ pos[p].y = InitialPos(width, height)[p].y

C3_Witness ==
    /\ lastEvent.kind = "tick"
    /\ lastEvent.a >= MaxDeltaTime
    /\ Len(joins) < Len(InitialJoins(width, height))
    /\ \E i \in DOMAIN joins :
          /\ pos[joins[i].from].isFixed
          /\ ~pos[joins[i].to].isFixed
          /\ pos[joins[i].to].y # InitialPos(width, height)[joins[i].to].y

\* C7: removePoint(p) removes exactly p from points() and exactly the joins
\* with p as from or to from joins(); the other points and joins stay, in the
\* same relative order, with positions and rest lengths unchanged.
C7_RemovePointFrame ==
    [][lastEvent'.kind = "removePoint" =>
          LET p == lastEvent'.a
          IN  /\ Range(points') = Range(points) \ {p}
              /\ Len(points') = Cardinality(Range(points'))
              /\ SameOrder(points, points')
              /\ Range(joins') = {j \in Range(joins) : j.from # p /\ j.to # p}
              /\ Len(joins') = Cardinality(Range(joins'))
              /\ SameOrder(joins, joins')
              /\ pos' = pos]_vars

C7_Witness ==
    /\ lastEvent.kind = "removePoint"
    /\ lastEvent.a \notin Range(points)
    /\ Len(points) = width * height - 1
    /\ Len(joins) > 0
    /\ Len(joins) < Len(InitialJoins(width, height))

\* the zero denominator of the determinant formula for the cut prev -> tx and
\* the join
Parallel(prev, tx, join, ps) ==
    Denominator(prev.x, prev.y, tx.x, tx.y,
                ps[join.from].x, ps[join.from].y,
                ps[join.to].x, ps[join.to].y) = 0

\* C8: a join parallel to or collinear with the cut segment (zero
\* denominator) is never removed by the cut.
C8_ParallelNeverCut ==
    [][lastEvent'.kind = "pointermove" =>
          \A i \in DOMAIN joins :
              Parallel(prevPoint, TxPoint(lastEvent'), joins[i], pos)
              => joins[i] \in Range(joins')]_vars

\* a cut along y = 0 that overlaps a join of the fixed top row, and a join
\* parallel to the cut away from its line, both still present
C8_Witness ==
    /\ CutMade
    /\ lastEvent.b = 0
    /\ lastEvent.d = 0
    /\ \E i \in DOMAIN joins :
          /\ Parallel([x |-> lastEvent.c, y |-> lastEvent.d], TxPoint(lastEvent),
                      joins[i], pos)
          /\ pos[joins[i].from].y = 0
          /\ pos[joins[i].to].y = 0
          /\ Min(lastEvent.a, lastEvent.c) < pos[joins[i].to].x
          /\ Max(lastEvent.a, lastEvent.c) > pos[joins[i].from].x
    /\ \E i \in DOMAIN joins :
          /\ Parallel([x |-> lastEvent.c, y |-> lastEvent.d], TxPoint(lastEvent),
                      joins[i], pos)
          /\ pos[joins[i].from].y # 0
    /\ Len(joins) < Len(InitialJoins(width, height))

\* C9: tick(deltaTime) with deltaTime > 1/30 leaves every point where
\* tick(1/30) with the same random sample leaves it.
C9_TimeStepClamped ==
    [][(lastEvent'.kind = "tick" /\ lastEvent'.a > MaxDeltaTime) =>
          pos' = tick(pos, points, joins, MaxDeltaTime, lastEvent'.b)]_vars

C9_Witness ==
    /\ lastEvent.kind = "tick"
    /\ lastEvent.a = 300
    /\ lastEvent.b = 1
    /\ \E p \in Range(points) :
          /\ pos[p].x # pos[p].px
          /\ pos[p].y # pos[p].py

\* C10: isDragging is set by pointerdown, cleared by pointerup and changed by
\* nothing else; a pointermove removes joins only while isDragging and only
\* when the pointer is more than 0.01 from prevPoint; a pointermove outside a
\* drag or within 0.01 of prevPoint leaves joins, points and prevPoint
\* unchanged.
C10_CutOnlyWhileDragging ==
    [][/\ lastEvent'.kind = "pointerdown" => isDragging'
       /\ lastEvent'.kind = "pointerup" => ~isDragging'
       /\ lastEvent'.kind \notin {"pointerdown", "pointerup"}
             => isDragging' = isDragging
       /\ lastEvent'.kind = "pointermove" =>
             LET dx == lastEvent'.a - prevPoint.x
                 dy == lastEvent'.b - prevPoint.y
                 moved == dx * dx + dy * dy > MinDragDistance * MinDragDistance
             IN  /\ joins' # joins => (isDragging /\ moved)
                 /\ (~isDragging \/ ~moved) =>
                       /\ joins' = joins
                       /\ points' = points
                       /\ prevPoint' = prevPoint]_vars

\* a drag whose first move stayed within 0.01 (nothing changed) and whose
\* second move cut joins
C10_Witness ==
    /\ CutMade
    /\ steps = 3
    /\ Len(joins) < Len(InitialJoins(width, height))
    /\ LET dx == lastEvent.a - lastEvent.c
           dy == lastEvent.b - lastEvent.d
       IN  dx * dx + dy * dy > MinDragDistance * MinDragDistance

====
